---- MODULE Spec2Model ----
(***************************************************************************)
(* Critical path analysis of src/scripts/script3.py:                       *)
(* perform_critical_path_analysis and the functions it calls               *)
(* (create_task_objects, forward_pass, backward_pass,                      *)
(* calculate_floats_and_critical_path), as a state machine.                *)
(*                                                                         *)
(* Dates are integers counting units of 1/UnitsPerDay day from an epoch    *)
(* (a pandas Timestamp carries a time of day), durations are counted in    *)
(* the same unit, and Timedelta.days is the floor of a difference in days. *)
(* A Python None is the empty tuple, a set value v is the tuple <<v>>.     *)
(***************************************************************************)
EXTENDS Integers, Sequences, FiniteSets, TLC

(* ---------------------------------------------------------------- bounds *)
MaxDur == 2
MaxStart == 1
UnitsPerDay == 2
RecursionLimit == 7
MaxRuns == 2
MaxDay == 7

Ids == <<"A", "B", "C">>
Dangling == "X"

DurSet == 1..MaxDur
StartSet == 0..MaxStart

(* ------------------------------------------------------- optional values *)
None == <<>>
Some(v) == <<v>>
Val(x) == x[1]

\* bool(x) of a value that is None or a Timestamp: a Timestamp is always true
Truthy(x) == x # None

Range(s) == {s[j] : j \in 1..Len(s)}

SetMax(S) == CHOOSE m \in S : \A x \in S : x <= m
SetMin(S) == CHOOSE m \in S : \A x \in S : m <= x

\* Timedelta.days of a difference of d units: whole days, rounded down
Days(d) == d \div UnitsPerDay

\* timedelta(days=duration) for a duration counted in units
Timedelta(duration) == duration

(* ------------------------------------------------------------ the inputs *)
\* the duplicate-free lists over the set S
ListsOver(S) ==
    {s \in UNION {[1..n -> S] : n \in 0..Cardinality(S)} :
        \A a, b \in DOMAIN s : a # b => s[a] # s[b]}

\* row['pred_task_id'].split(', ') of the task at position n: other task ids
\* in any order, possibly followed by an id that no record carries
PredLists ==
    [n \in 1..Len(Ids) |->
        LET others == ListsOver(Range(Ids) \ {Ids[n]})
        IN  others \cup {Append(s, Dangling) : s \in others}]

Row(n, d, s, p) ==
    [task_id |-> Ids[n], planned_start |-> Some(s), duration |-> d, pred_task_id |-> p]

\* one predecessor list for each row
PredChoices ==
    LET all == UNION {PredLists[n] : n \in 1..Len(Ids)}
    IN  {p \in [1..Len(Ids) -> all] : \A n \in 1..Len(Ids) : p[n] \in PredLists[n]}

\* planned_start is read only for a row with an empty predecessor list
\* (script3.py:142), so the other rows carry the date 0
StartChoices(p) ==
    {s \in [1..Len(Ids) -> StartSet] : \A n \in 1..Len(Ids) : p[n] # <<>> => s[n] = 0}

\* the rows of the data frame, one for each task id
Table(p, d, s) == [n \in 1..Len(Ids) |-> Row(n, d[n], s[n], p[n])]

RowIds(r) == {r[n].task_id : n \in 1..Len(r)}
RowOf(r, id) == r[CHOOSE n \in 1..Len(r) : r[n].task_id = id /\ \A m \in n+1..Len(r) : r[m].task_id # id]

\* the predecessor links between tasks of the table
Links(r) ==
    {<<p, r[n].task_id>> : n \in 1..Len(r), p \in RowIds(r)} \cap
    UNION {{<<p, r[n].task_id>> : p \in Range(r[n].pred_task_id)} : n \in 1..Len(r)}

RECURSIVE ReachFrom(_, _, _)
ReachFrom(E, S, n) ==
    IF n = 0 THEN S
    ELSE ReachFrom(E, S \cup {e[2] : e \in {f \in E : f[1] \in S}}, n - 1)

\* the tasks that a chain of one or more links leads to from task a
After(r, a) ==
    ReachFrom(Links(r), {e[2] : e \in {f \in Links(r) : f[1] = a}}, Len(r))

HasCycle(r) == \E a \in RowIds(r) : a \in After(r, a)
HasDangling(r) == \E n \in 1..Len(r) : \E p \in Range(r[n].pred_task_id) : p \notin RowIds(r)

\* the tables whose links are acyclic and name tasks of the table only
DagChoices ==
    {p \in PredChoices :
        LET r == Table(p, [n \in 1..Len(Ids) |-> 1], [n \in 1..Len(Ids) |-> 0])
        IN  ~HasCycle(r) /\ ~HasDangling(r)}

(* ------------------------------------------------------------- the state *)
VARIABLES
    records,            \* df: the rows handed to perform_critical_path_analysis
    tasks,              \* tasks: task_id -> Task
    order,              \* the key order of the dict tasks
    pc,                 \* the statement perform_critical_path_analysis is at
    threads,            \* where the worker thread of each submitted pass is
    i,                  \* position of the running for loop over tasks / end_tasks
    stack,              \* the active process_task calls: <<[task, k]>>, k the next neighbour
    end_tasks,          \* backward_pass: end_tasks
    futures,            \* the exception held by the future of each submitted pass
    problematic_tasks,  \* perform_critical_path_analysis: problematic_tasks
    critical_path,      \* calculate_floats_and_critical_path: critical_path
    results,            \* the rows of results_df, None until it is returned
    error,              \* the exception perform_critical_path_analysis ends with
    run,                \* which analysis of the table this is
    prev                \* the results of the analysis before this one

cpm_vars == <<records, tasks, order, pc, threads, i, stack, end_tasks, futures,
              problematic_tasks, critical_path, results, error, run, prev>>

\* the web application (app.py) and process_xer_file (orchestrator.py)
VARIABLES
    progress_info,      \* app.py: the module-level dict progress_info
    procs,              \* the calls of process_xer_file: where each one is
    served              \* the body of the last response of /progress, None before it

web_vars == <<progress_info, procs, served>>

\* the period sheets of processing_script.py
VARIABLES
    data,               \* the cleaned data frame: Start Date and End Date of each task
    date_range,         \* master_settings.date_range of the configuration
    rpc,                \* the statement apply_analysis_to_filtered_data is at
    current_date,       \* calculate_date_ranges: current_date
    date_ranges,        \* calculate_date_ranges: the values of date_ranges, in order
    sheets              \* create_color_coded_df: the tasks of each period, for each sort_by

report_vars == <<data, date_range, rpc, current_date, date_ranges, sheets>>

vars == <<cpm_vars, web_vars, report_vars>>

Task(row) ==
    [task_id |-> row.task_id,
     planned_start |-> row.planned_start,
     duration |-> row.duration,
     predecessors |-> row.pred_task_id,
     successors |-> <<>>,
     early_start |-> None,
     early_finish |-> None,
     late_start |-> None,
     late_finish |-> None,
     total_float |-> None,
     free_float |-> None,
     is_critical |-> FALSE]

Start(r) ==
    /\ records = r
    /\ tasks = <<>>
    /\ order = <<>>
    /\ pc = "create"
    /\ threads = [forward |-> "none", backward |-> "none"]
    /\ i = 1
    /\ stack = <<>>
    /\ end_tasks = <<>>
    /\ futures = [forward |-> "none", backward |-> "none"]
    /\ problematic_tasks = <<>>
    /\ critical_path = <<>>
    /\ results = None
    /\ error = "none"

\* app.py as imported: progress_info as line 12 makes it, no request yet
IdleProc == [pc |-> "idle", kind |-> "none", stage |-> 0, log |-> <<>>, outcome |-> "none"]

WebIdle ==
    /\ progress_info = [overall_progress |-> 0, step_progress |-> 0,
                        current_step |-> "Initializing..."]
    /\ procs = [r \in 1..MaxRuns |-> IdleProc]
    /\ served = None

\* processing_script.py before apply_analysis_to_filtered_data is called
ReportIdle ==
    /\ data = <<>>
    /\ date_range = "bi-monthly"
    /\ rpc = "idle"
    /\ current_date = None
    /\ date_ranges = <<>>
    /\ sheets = [start |-> <<>>, end |-> <<>>]

Init ==
    \E p \in PredChoices : \E d \in [1..Len(Ids) -> DurSet] : \E s \in StartChoices(p) :
        Start(Table(p, d, s)) /\ run = 1 /\ prev = None /\ WebIdle /\ ReportIdle

InitDag ==
    \E p \in DagChoices : \E d \in [1..Len(Ids) -> DurSet] : \E s \in StartChoices(p) :
        Start(Table(p, d, s)) /\ run = 1 /\ prev = None /\ WebIdle /\ ReportIdle

(* --------------------------------------------------- create_task_objects *)
\* the keys of a dict filled row by row: an id keeps the place of its first row
RECURSIVE DictKeys(_, _)
DictKeys(r, n) ==
    IF n = 0 THEN <<>>
    ELSE LET keys == DictKeys(r, n - 1)
         IN  IF r[n].task_id \in Range(keys) THEN keys ELSE Append(keys, r[n].task_id)

\* for pred_id in task.predecessors: if pred_id in tasks: ...successors.append
RECURSIVE LinkPreds(_, _, _)
LinkPreds(T, t, j) ==
    IF j > Len(T[t].predecessors) THEN T
    ELSE LET p == T[t].predecessors[j]
         IN  LinkPreds(IF p \in DOMAIN T
                        THEN [T EXCEPT ![p].successors = Append(@, T[t].task_id)]
                        ELSE T,
                       t, j + 1)

\* for task in tasks.values(): ...
RECURSIVE LinkTasks(_, _, _)
LinkTasks(T, keys, n) ==
    IF n > Len(keys) THEN T ELSE LinkTasks(LinkPreds(T, keys[n], 1), keys, n + 1)

\* df as the loop would leave it if it stored each split predecessor list,
\* without the ids that no record carries, back into its row
IterrowsStoringLists(r) ==
    [n \in DOMAIN r |->
        [r[n] EXCEPT !.pred_task_id = SelectSeq(@, LAMBDA p : p \in RowIds(r))]]

\* df after for _, row in df.iterrows(): every row is read, nothing is
\* assigned to a row or to df
Iterrows(r) == r

create_task_objects(r) ==
    LET keys == DictKeys(r, Len(r))
        T == [id \in Range(keys) |-> Task(RowOf(r, id))]
    IN  LinkTasks(T, keys, 1)

\* tasks = create_task_objects(df), then the first with block is entered and
\* executor.submit(forward_pass, tasks) starts the pass in a worker thread
CreateTaskObjects ==
    /\ pc = "create"
    /\ tasks' = create_task_objects(records)
    /\ order' = DictKeys(records, Len(records))
    /\ pc' = "forward"
    /\ threads' = [threads EXCEPT !.forward = "loop"]
    /\ records' = Iterrows(records)
    /\ i' = 1
    /\ UNCHANGED <<stack, end_tasks, futures, problematic_tasks, critical_path, results,
                   error, run, prev>>
    /\ UNCHANGED <<web_vars, report_vars>>

(* ---------------------------------------------------------- forward_pass *)
\* pred_finish_dates of process_task
PredFinishDates(T, t) ==
    {Val(T[p].early_finish) :
        p \in {q \in Range(T[t].predecessors) : q \in DOMAIN T /\ Truthy(T[q].early_finish)}}

\* the assignments of forward_pass.process_task(t), past the early return
ForwardBody(T, t) ==
    LET es == IF T[t].predecessors = <<>> THEN T[t].planned_start
              ELSE IF PredFinishDates(T, t) # {} THEN Some(SetMax(PredFinishDates(T, t)))
              ELSE T[t].early_start
        ef == IF Truthy(es) THEN Some(Val(es) + Timedelta(T[t].duration))
              ELSE T[t].early_finish
    IN  [T EXCEPT ![t].early_start = es, ![t].early_finish = ef]

\* the tasks that process_task(t) calls itself on, in order
ForwardCalls(T, t) == SelectSeq(T[t].successors, LAMBDA s : s \in DOMAIN T)
BackwardCalls(T, t) == SelectSeq(T[t].predecessors, LAMBDA p : p \in DOMAIN T)
Calls(phase, T, t) == IF phase = "forward" THEN ForwardCalls(T, t) ELSE BackwardCalls(T, t)

\* the calls that have run their loop to the end return
RECURSIVE Unwind(_, _, _)
Unwind(phase, T, S) ==
    IF S = <<>> THEN S
    ELSE IF S[Len(S)].k > Len(Calls(phase, T, S[Len(S)].task))
         THEN Unwind(phase, T, SubSeq(S, 1, Len(S) - 1))
         ELSE S

\* process_task(t) of forward_pass called under the calls S: <<tasks, stack>>
ForwardProcessTask(T, S, t) ==
    IF T[t].early_start # None THEN <<T, Unwind("forward", T, S)>>
    ELSE LET T1 == ForwardBody(T, t)
         IN  <<T1, Unwind("forward", T1, Append(S, [task |-> t, k |-> 1]))>>

\* for task in tasks.values(): if not task.predecessors: process_task(task)
ForwardLoop ==
    /\ threads.forward = "loop" /\ stack = <<>> /\ i <= Len(order)
    /\ LET t == order[i]
           call == ForwardProcessTask(tasks, <<>>, t)
       IN  IF tasks[t].predecessors = <<>>
           THEN tasks' = call[1] /\ stack' = call[2]
           ELSE UNCHANGED <<tasks, stack>>
    /\ i' = i + 1
    /\ UNCHANGED <<records, order, pc, threads, end_tasks, futures, problematic_tasks,
                   critical_path, results, error, run, prev>>
    /\ UNCHANGED <<web_vars, report_vars>>

\* for succ_id in task.successors: if succ_id in tasks: process_task(tasks[succ_id])
\* A call nested deeper than the interpreter allows raises RecursionError in
\* the worker thread: the pass ends there, its future keeps the exception
\* and nobody asks the future for its result.
ForwardVisit ==
    /\ threads.forward = "loop" /\ stack # <<>>
    /\ IF Len(stack) >= RecursionLimit
       THEN /\ futures' = [futures EXCEPT !.forward = "RecursionError"]
            /\ stack' = <<>>
            /\ threads' = [threads EXCEPT !.forward = "over"]
            /\ UNCHANGED tasks
       ELSE LET top == stack[Len(stack)]
                callee == ForwardCalls(tasks, top.task)[top.k]
                call == ForwardProcessTask(tasks, [stack EXCEPT ![Len(stack)].k = @ + 1],
                                           callee)
            IN  /\ tasks' = call[1]
                /\ stack' = call[2]
                /\ UNCHANGED <<threads, futures>>
    /\ UNCHANGED <<records, order, pc, i, end_tasks, problematic_tasks, critical_path,
                   results, error, run, prev>>
    /\ UNCHANGED <<web_vars, report_vars>>

\* forward_pass returns: the worker thread has run the submitted call
ForwardDone ==
    /\ threads.forward = "loop" /\ stack = <<>> /\ i > Len(order)
    /\ threads' = [threads EXCEPT !.forward = "over"]
    /\ UNCHANGED <<records, tasks, order, pc, i, stack, end_tasks, futures,
                   problematic_tasks, critical_path, results, error, run, prev>>
    /\ UNCHANGED <<web_vars, report_vars>>

\* the exit of a with block as executor.shutdown(wait=False) would leave it:
\* at once, whatever the worker thread is doing
ShutdownNoWait(T, pass) == TRUE

\* the exit of a with block calls executor.shutdown(wait=True), which returns
\* when the thread running the submitted pass has ended
ShutdownReturns(T, pass) == T[pass] = "over"

\* the first with block is left and the second one is entered:
\* executor.submit(backward_pass, tasks) starts the pass in a worker thread
ForwardShutdown ==
    /\ pc = "forward" /\ ShutdownReturns(threads, "forward")
    /\ pc' = "backward"
    /\ threads' = [threads EXCEPT !.backward = "begin"]
    /\ UNCHANGED <<records, tasks, order, i, stack, end_tasks, futures, problematic_tasks,
                   critical_path, results, error, run, prev>>
    /\ UNCHANGED <<web_vars, report_vars>>

(* --------------------------------------------------------- backward_pass *)
\* succ_start_dates of process_task
SuccStartDates(T, t) ==
    {Val(T[q].late_start) :
        q \in {q \in Range(T[t].successors) : q \in DOMAIN T /\ Truthy(T[q].late_start)}}

\* the assignments of backward_pass.process_task(t), past the early return
BackwardBody(T, t) ==
    LET lf == IF T[t].successors = <<>> THEN T[t].early_finish
              ELSE IF SuccStartDates(T, t) # {} THEN Some(SetMin(SuccStartDates(T, t)))
              ELSE T[t].early_finish
        ls == IF Truthy(lf) THEN Some(Val(lf) - Timedelta(T[t].duration))
              ELSE T[t].late_start
    IN  [T EXCEPT ![t].late_finish = lf, ![t].late_start = ls]

\* process_task(t) of backward_pass called under the calls S: <<tasks, stack>>
BackwardProcessTask(T, S, t) ==
    IF T[t].late_finish # None THEN <<T, Unwind("backward", T, S)>>
    ELSE LET T1 == BackwardBody(T, t)
         IN  <<T1, Unwind("backward", T1, Append(S, [task |-> t, k |-> 1]))>>

\* max(tasks.values(), key=lambda t: t.early_finish) compares the keys of
\* two tasks as soon as there are two, and None does not compare
MaxRaises(T, keys) == Len(keys) >= 2 /\ \E t \in Range(keys) : T[t].early_finish = None

\* max(...) where it returns: the first task with the greatest key
LatestTask(T, keys) ==
    IF Len(keys) = 1 THEN keys[1]
    ELSE keys[CHOOSE n \in 1..Len(keys) :
                /\ \A m \in 1..Len(keys) : Val(T[keys[m]].early_finish) <= Val(T[keys[n]].early_finish)
                /\ \A m \in 1..n-1 : Val(T[keys[m]].early_finish) < Val(T[keys[n]].early_finish)]

\* backward_pass up to its for loop: end_tasks, and latest_task where there is none
BackwardBegin ==
    /\ threads.backward = "begin"
    /\ LET ends == SelectSeq(order, LAMBDA t : tasks[t].successors = <<>>)
       IN  IF ends # <<>>
           THEN /\ end_tasks' = ends
                /\ threads' = [threads EXCEPT !.backward = "loop"]
                /\ UNCHANGED <<tasks, futures>>
           ELSE IF MaxRaises(tasks, order)
           THEN /\ futures' = [futures EXCEPT !.backward = "TypeError"]
                /\ threads' = [threads EXCEPT !.backward = "over"]
                /\ UNCHANGED <<tasks, end_tasks>>
           ELSE LET latest_task == LatestTask(tasks, order)
                IN  /\ tasks' = [tasks EXCEPT ![latest_task].late_finish =
                                                    tasks[latest_task].early_finish]
                    /\ end_tasks' = <<latest_task>>
                    /\ threads' = [threads EXCEPT !.backward = "loop"]
                    /\ UNCHANGED futures
    /\ i' = 1
    /\ UNCHANGED <<records, order, pc, stack, problematic_tasks, critical_path, results, error,
                   run, prev>>
    /\ UNCHANGED <<web_vars, report_vars>>

\* for task in end_tasks: process_task(task)
BackwardLoop ==
    /\ threads.backward = "loop" /\ stack = <<>> /\ i <= Len(end_tasks)
    /\ LET call == BackwardProcessTask(tasks, <<>>, end_tasks[i])
       IN  tasks' = call[1] /\ stack' = call[2]
    /\ i' = i + 1
    /\ UNCHANGED <<records, order, pc, threads, end_tasks, futures, problematic_tasks,
                   critical_path, results, error, run, prev>>
    /\ UNCHANGED <<web_vars, report_vars>>

\* for pred_id in task.predecessors: if pred_id in tasks: process_task(tasks[pred_id])
\* A call nested too deep ends the pass with RecursionError, as in forward_pass.
BackwardVisit ==
    /\ threads.backward = "loop" /\ stack # <<>>
    /\ IF Len(stack) >= RecursionLimit
       THEN /\ futures' = [futures EXCEPT !.backward = "RecursionError"]
            /\ stack' = <<>>
            /\ threads' = [threads EXCEPT !.backward = "over"]
            /\ UNCHANGED tasks
       ELSE LET top == stack[Len(stack)]
                callee == BackwardCalls(tasks, top.task)[top.k]
                call == BackwardProcessTask(tasks, [stack EXCEPT ![Len(stack)].k = @ + 1],
                                            callee)
            IN  /\ tasks' = call[1]
                /\ stack' = call[2]
                /\ UNCHANGED <<threads, futures>>
    /\ UNCHANGED <<records, order, pc, i, end_tasks, problematic_tasks, critical_path,
                   results, error, run, prev>>
    /\ UNCHANGED <<web_vars, report_vars>>

\* backward_pass returns: the worker thread has run the submitted call
BackwardDone ==
    /\ threads.backward = "loop" /\ stack = <<>> /\ i > Len(end_tasks)
    /\ threads' = [threads EXCEPT !.backward = "over"]
    /\ UNCHANGED <<records, tasks, order, pc, i, stack, end_tasks, futures,
                   problematic_tasks, critical_path, results, error, run, prev>>
    /\ UNCHANGED <<web_vars, report_vars>>

\* the second with block is left
BackwardShutdown ==
    /\ pc = "backward" /\ ShutdownReturns(threads, "backward")
    /\ pc' = "check"
    /\ UNCHANGED <<records, tasks, order, threads, i, stack, end_tasks, futures,
                   problematic_tasks, critical_path, results, error, run, prev>>
    /\ UNCHANGED <<web_vars, report_vars>>

(* ---------------------------------------- perform_critical_path_analysis *)
\* problematic_tasks = [task ... if task.early_start is None or task.late_start is None]
CheckDates ==
    /\ pc = "check"
    /\ problematic_tasks' =
            SelectSeq(order, LAMBDA t : tasks[t].early_start = None \/ tasks[t].late_start = None)
    /\ pc' = "floats"
    /\ i' = 1
    /\ UNCHANGED <<records, tasks, order, threads, stack, end_tasks, futures, critical_path,
                   results, error, run, prev>>
    /\ UNCHANGED <<web_vars, report_vars>>

(* ------------------------------------ calculate_floats_and_critical_path *)
\* the flag as the report's "simple critical" filter would set it (total float <= 0)
IsCriticalNonPositive(total_float) == total_float <= 0

\* task.is_critical = task.total_float == 0
IsCritical(total_float) == total_float = 0

\* task.total_float = (task.late_start - task.early_start).days
TotalFloat(T, t) == Days(Val(T[t].late_start) - Val(T[t].early_start))

\* the first half of the loop body: total_float and is_critical
WithTotalFloat(T, t) ==
    IF Truthy(T[t].early_start) /\ Truthy(T[t].late_start)
    THEN [T EXCEPT ![t].total_float = Some(TotalFloat(T, t)),
                   ![t].is_critical = IsCritical(TotalFloat(T, t))]
    ELSE T

\* tasks[succ_id].early_start - task.early_finish raises TypeError on a None
FreeFloatRaises(T, t) ==
    /\ T[t].successors # <<>>
    /\ \/ T[t].early_finish = None
       \/ \E q \in Range(T[t].successors) : T[q].early_start = None

\* the second half of the loop body: free_float
FreeFloat(T, t) ==
    IF T[t].successors # <<>>
    THEN Some(SetMin({Days(Val(T[q].early_start) - Val(T[t].early_finish)) :
                        q \in {q \in Range(T[t].successors) : q \in DOMAIN T}}))
    ELSE T[t].total_float

\* one turn of for task in tasks.values()
FloatStep ==
    /\ pc = "floats" /\ i <= Len(order)
    /\ LET t == order[i]
           T1 == WithTotalFloat(tasks, t)
       IN  /\ critical_path' = IF T1[t].is_critical THEN Append(critical_path, T1[t].task_id)
                                ELSE critical_path
           /\ IF FreeFloatRaises(T1, t)
              THEN /\ tasks' = T1
                   /\ error' = "TypeError"
                   /\ pc' = "raised"
                   /\ i' = i
              ELSE /\ tasks' = [T1 EXCEPT ![t].free_float = FreeFloat(T1, t)]
                   /\ i' = i + 1
                   /\ UNCHANGED <<pc, error>>
    /\ UNCHANGED <<records, order, threads, stack, end_tasks, futures, problematic_tasks,
                   results, run, prev>>
    /\ UNCHANGED <<web_vars, report_vars>>

\* results.append({...}) for every task
ResultRow(task) ==
    [task_id |-> task.task_id,
     early_start |-> task.early_start,
     early_finish |-> task.early_finish,
     late_start |-> task.late_start,
     late_finish |-> task.late_finish,
     total_float |-> task.total_float,
     free_float |-> task.free_float,
     is_critical |-> task.is_critical]

\* the floats are computed: build the results table and return it
ReturnResults ==
    /\ pc = "floats" /\ i > Len(order)
    /\ results' = [n \in 1..Len(order) |-> ResultRow(tasks[order[n]])]
    /\ pc' = "done"
    /\ UNCHANGED <<records, tasks, order, threads, i, stack, end_tasks, futures,
                   problematic_tasks, critical_path, error, run, prev>>
    /\ UNCHANGED <<web_vars, report_vars>>

Next ==
    \/ CreateTaskObjects
    \/ ForwardLoop
    \/ ForwardVisit
    \/ ForwardDone
    \/ ForwardShutdown
    \/ BackwardBegin
    \/ BackwardLoop
    \/ BackwardVisit
    \/ BackwardDone
    \/ BackwardShutdown
    \/ CheckDates
    \/ FloatStep
    \/ ReturnResults

Spec == Init /\ [][Next]_vars

(* ------------------------------------------- a second run, records reordered *)
\* the orders in which the elements of the duplicate-free list s can be listed
Reorderings(s) == {t \in ListsOver(Range(s)) : Len(t) = Len(s)}

\* a row with its predecessor list in some order
RowVariants(row) == {[row EXCEPT !.pred_task_id = l] : l \in Reorderings(row.pred_task_id)}

\* the tables with the rows of r in some order, each predecessor list in some order
Reordered(r) ==
    {t \in [1..Len(r) -> UNION {RowVariants(r[n]) : n \in 1..Len(r)}] :
        \E f \in [1..Len(r) -> 1..Len(r)] :
            /\ \A a, b \in 1..Len(r) : a # b => f[a] # f[b]
            /\ \A n \in 1..Len(r) : t[n] \in RowVariants(r[f[n]])}

\* perform_critical_path_analysis is called again on the same records in
\* another order; the table the first call returned is kept to compare
Rerun ==
    /\ pc = "done" /\ run = 1
    /\ \E r \in Reordered(records) : records' = r
    /\ prev' = results
    /\ run' = 2
    /\ tasks' = <<>>
    /\ order' = <<>>
    /\ pc' = "create"
    /\ threads' = [forward |-> "none", backward |-> "none"]
    /\ i' = 1
    /\ stack' = <<>>
    /\ end_tasks' = <<>>
    /\ futures' = [forward |-> "none", backward |-> "none"]
    /\ problematic_tasks' = <<>>
    /\ critical_path' = <<>>
    /\ results' = None
    /\ error' = "none"
    /\ UNCHANGED <<web_vars, report_vars>>

NextTwoRuns == Next \/ Rerun

SpecTwoRuns == InitDag /\ [][NextTwoRuns]_vars

SpecDag == InitDag /\ [][Next]_vars

(* ----------------------------------------- a table that repeats a task id *)
\* the tables in which a row carries the task id of an earlier row
DupTables(r) ==
    UNION {{[r EXCEPT ![m].task_id = r[n].task_id] : n \in 1..m-1} : m \in 2..Len(r)}

HasDuplicate(r) == \E m, n \in 1..Len(r) : m # n /\ r[m].task_id = r[n].task_id

InitDup ==
    \E p \in PredChoices : \E d \in [1..Len(Ids) -> DurSet] : \E s \in StartChoices(p) :
        \E r \in DupTables(Table(p, d, s)) :
            Start(r) /\ run = 1 /\ prev = None /\ WebIdle /\ ReportIdle

SpecDup == InitDup /\ [][Next]_vars

(* ------------------------------------------- a second run, the same table *)
\* perform_critical_path_analysis is called again with the data frame that
\* the first call was given; what the first call ended with is kept to compare
Repeat ==
    /\ pc \in {"done", "raised"} /\ run = 1
    /\ prev' = results
    /\ run' = 2
    /\ tasks' = <<>>
    /\ order' = <<>>
    /\ pc' = "create"
    /\ threads' = [forward |-> "none", backward |-> "none"]
    /\ i' = 1
    /\ stack' = <<>>
    /\ end_tasks' = <<>>
    /\ futures' = [forward |-> "none", backward |-> "none"]
    /\ problematic_tasks' = <<>>
    /\ critical_path' = <<>>
    /\ results' = None
    /\ error' = "none"
    /\ UNCHANGED records
    /\ UNCHANGED <<web_vars, report_vars>>

NextRepeat == Next \/ Repeat

SpecRepeat == Init /\ [][NextRepeat]_vars

(* ------------------------------------------------- a table of four tasks *)
FourIds == <<"A", "B", "C", "D">>

\* row['pred_task_id'].split(', ') of the task at position n of four: empty,
\* or the id of one other task
OnePredLists(n) == {<<>>} \cup {<<FourIds[m]>> : m \in (1..Len(FourIds)) \ {n}}

FourTable(p, d, s) ==
    [n \in 1..Len(FourIds) |->
        [task_id |-> FourIds[n], planned_start |-> Some(s[n]), duration |-> d[n],
         pred_task_id |-> p[n]]]

InitFour ==
    \E p \in [1..Len(FourIds) -> UNION {OnePredLists(n) : n \in 1..Len(FourIds)}] :
        /\ \A n \in 1..Len(FourIds) : p[n] \in OnePredLists(n)
        /\ \E d \in [1..Len(FourIds) -> DurSet] :
           \E s \in [1..Len(FourIds) -> {0, MaxStart}] :
                /\ \A n \in 1..Len(FourIds) : p[n] # <<>> => s[n] = 0
                /\ Start(FourTable(p, d, s)) /\ run = 1 /\ prev = None
                /\ WebIdle /\ ReportIdle

SpecFour == InitFour /\ [][Next]_vars

(* ------------------------------ app.py and orchestrator.process_xer_file *)
\* progress_info['current_step'] of the four stages, in the order of the code
StepNames ==
    <<"XER File Parsing", "Data Preprocessing and Analysis",
      "Critical Path Analysis and Reporting", "Gantt Chart Generation">>

\* progress_info['overall_progress'] if every stage reported one quarter,
\* whichever stage it is
OverallAfterQuarter(stage) == 25

\* progress_info['overall_progress'] = 25, 50, 75, 100 after stage 1, 2, 3, 4
OverallAfter(stage) == 25 * stage

\* the call r of process_xer_file goes on to pc
Goto(r, pc1) == procs' = [procs EXCEPT ![r].pc = pc1]

Logged(r, event, pc1) ==
    procs' = [procs EXCEPT ![r].pc = pc1, ![r].log = Append(@, <<event, procs[r].stage>>)]

\* GET /processing/<filename>: a thread is started that runs
\* process_file_background, which calls process_xer_file
StartProcessing(r) ==
    /\ procs[r].pc = "idle"
    /\ procs' = [procs EXCEPT ![r] = [IdleProc EXCEPT !.pc = "current_step",
                                                      !.kind = "background", !.stage = 1]]
    /\ UNCHANGED <<progress_info, served>>
    /\ UNCHANGED <<cpm_vars, report_vars>>

\* GET /process/<filename>: the request thread calls process_xer_file itself
StartProcess(r) ==
    /\ procs[r].pc = "idle"
    /\ procs' = [procs EXCEPT ![r] = [IdleProc EXCEPT !.pc = "current_step",
                                                      !.kind = "request", !.stage = 1]]
    /\ UNCHANGED <<progress_info, served>>
    /\ UNCHANGED <<cpm_vars, report_vars>>

\* progress_info['current_step'] = "<name of the stage>"
SetCurrentStep(r) ==
    /\ procs[r].pc = "current_step"
    /\ progress_info' = [progress_info EXCEPT !.current_step = StepNames[procs[r].stage]]
    /\ Goto(r, "step_zero")
    /\ UNCHANGED served
    /\ UNCHANGED <<cpm_vars, report_vars>>

\* progress_info['step_progress'] = 0
SetStepZero(r) ==
    /\ procs[r].pc = "step_zero"
    /\ progress_info' = [progress_info EXCEPT !.step_progress = 0]
    /\ Goto(r, IF procs[r].stage = 1 THEN "overall_zero" ELSE "call")
    /\ UNCHANGED served
    /\ UNCHANGED <<cpm_vars, report_vars>>

\* progress_info['overall_progress'] = 0, before the first stage only
SetOverallZero(r) ==
    /\ procs[r].pc = "overall_zero"
    /\ progress_info' = [progress_info EXCEPT !.overall_progress = 0]
    /\ Goto(r, "call")
    /\ UNCHANGED served
    /\ UNCHANGED <<cpm_vars, report_vars>>

\* the function of the stage is called: script1.parse_and_save_raw_data,
\* script2.process_parsed_data, script3.main, script4.main
CallStage(r) ==
    /\ procs[r].pc = "call"
    /\ Logged(r, "call", "stage")
    /\ UNCHANGED <<progress_info, served>>
    /\ UNCHANGED <<cpm_vars, report_vars>>

StageReturns(r) ==
    /\ procs[r].pc = "stage"
    /\ Logged(r, "return", "step_hundred")
    /\ UNCHANGED <<progress_info, served>>
    /\ UNCHANGED <<cpm_vars, report_vars>>

\* the function of the stage raises: control passes to except Exception
StageRaises(r) ==
    /\ procs[r].pc = "stage"
    /\ Logged(r, "raise", "except")
    /\ UNCHANGED <<progress_info, served>>
    /\ UNCHANGED <<cpm_vars, report_vars>>

\* progress_info['step_progress'] = 100
SetStepHundred(r) ==
    /\ procs[r].pc = "step_hundred"
    /\ progress_info' = [progress_info EXCEPT !.step_progress = 100]
    /\ Goto(r, "overall")
    /\ UNCHANGED served
    /\ UNCHANGED <<cpm_vars, report_vars>>

\* progress_info['overall_progress'] = 25 | 50 | 75 | 100, then the next
\* stage, or the return statement after the last one
SetOverall(r) ==
    /\ procs[r].pc = "overall"
    /\ progress_info' = [progress_info EXCEPT !.overall_progress = OverallAfter(procs[r].stage)]
    /\ IF procs[r].stage < Len(StepNames)
       THEN procs' = [procs EXCEPT ![r].pc = "current_step", ![r].stage = @ + 1]
       ELSE Goto(r, "return")
    /\ UNCHANGED served
    /\ UNCHANGED <<cpm_vars, report_vars>>

\* return output_files, gantt_chart_path: back in process_file_background,
\* or in the route process_file, which renders its page
Return(r) ==
    /\ procs[r].pc = "return"
    /\ procs' = [procs EXCEPT ![r].outcome = "returned",
                              ![r].pc = IF procs[r].kind = "background"
                                        THEN "overall_complete" ELSE "end"]
    /\ UNCHANGED <<progress_info, served>>
    /\ UNCHANGED <<cpm_vars, report_vars>>

\* except Exception as e: logging.error(...); raise: the exception reaches
\* process_file_background, or the route process_file, which redirects
Except(r) ==
    /\ procs[r].pc = "except"
    /\ procs' = [procs EXCEPT ![r].outcome = "raised",
                              ![r].pc = IF procs[r].kind = "background"
                                        THEN "error" ELSE "end"]
    /\ UNCHANGED <<progress_info, served>>
    /\ UNCHANGED <<cpm_vars, report_vars>>

\* process_file_background: progress_info['overall_progress'] = 100
SetOverallComplete(r) ==
    /\ procs[r].pc = "overall_complete"
    /\ progress_info' = [progress_info EXCEPT !.overall_progress = 100]
    /\ Goto(r, "complete")
    /\ UNCHANGED served
    /\ UNCHANGED <<cpm_vars, report_vars>>

\* process_file_background: progress_info['current_step'] = 'Complete'
SetComplete(r) ==
    /\ procs[r].pc = "complete"
    /\ progress_info' = [progress_info EXCEPT !.current_step = "Complete"]
    /\ Goto(r, "end")
    /\ UNCHANGED served
    /\ UNCHANGED <<cpm_vars, report_vars>>

\* process_file_background: progress_info['current_step'] = f"Error: {str(e)}"
SetError(r) ==
    /\ procs[r].pc = "error"
    /\ progress_info' = [progress_info EXCEPT !.current_step = "Error"]
    /\ Goto(r, "end")
    /\ UNCHANGED served
    /\ UNCHANGED <<cpm_vars, report_vars>>

\* GET /progress: return jsonify(progress_info)
GetProgress ==
    /\ served' = progress_info
    /\ served' # served
    /\ UNCHANGED <<progress_info, procs>>
    /\ UNCHANGED <<cpm_vars, report_vars>>

ProcStep(r) ==
    \/ StartProcessing(r)
    \/ StartProcess(r)
    \/ SetCurrentStep(r)
    \/ SetStepZero(r)
    \/ SetOverallZero(r)
    \/ CallStage(r)
    \/ StageReturns(r)
    \/ StageRaises(r)
    \/ SetStepHundred(r)
    \/ SetOverall(r)
    \/ Return(r)
    \/ Except(r)
    \/ SetOverallComplete(r)
    \/ SetComplete(r)
    \/ SetError(r)

\* progress_info when a call starts: as imported, or as an earlier
\* background run left it when it completed
InitCall ==
    /\ Start(<<>>) /\ run = 1 /\ prev = None /\ ReportIdle
    /\ procs = [r \in 1..MaxRuns |-> IdleProc]
    /\ served = None
    /\ progress_info \in
            {[overall_progress |-> 0, step_progress |-> 0, current_step |-> "Initializing..."],
             [overall_progress |-> 100, step_progress |-> 100, current_step |-> "Complete"]}

\* one call of process_xer_file, with /progress asked at any moment
NextCall == ProcStep(1) \/ GetProgress

SpecCall == InitCall /\ [][NextCall]_vars

\* the application as imported: progress_info of line 12, no request yet
InitWeb == Start(<<>>) /\ run = 1 /\ prev = None /\ WebIdle /\ ReportIdle

\* requests of any route at any moment: the calls overlap
NextWeb == (\E r \in 1..MaxRuns : ProcStep(r)) \/ GetProgress

SpecWeb == InitWeb /\ [][NextWeb]_vars

(* ------------------------------------- processing_script.py: the periods *)
\* a Timestamp is a number of units of 1/UnitsPerDay day; the rows of the
\* cleaned data have a Start Date and an End Date, at any time of day
Timestamps == 0..(MaxDay * UnitsPerDay + UnitsPerDay - 1)

DataRows ==
    {row \in [Start_Date : Timestamps, End_Date : Timestamps] :
        row.Start_Date <= row.End_Date /\ row.End_Date <= row.Start_Date + MaxDur}

\* pd.Timedelta(days=n)
PdTimedelta(n) == n * UnitsPerDay

\* Timestamp.date(), as the f-string prints it: the day, the time of day dropped
Date(ts) == ts \div UnitsPerDay

\* pd.to_datetime of a printed date: midnight of that day
ToDatetime(day) == day * UnitsPerDay

\* the tables of two rows, the earliest of them on day 0
DataTables ==
    {d \in [1..2 -> DataRows] : \E n \in 1..2 : Date(d[n].Start_Date) = 0}

DateRangeSettings == {"weekly", "bi-monthly", "monthly", "3months", "6months", "yearly"}

\* delta of calculate_date_ranges, in days
Delta(setting) ==
    CASE setting = "weekly" -> 7
      [] setting = "bi-monthly" -> 14
      [] setting = "monthly" -> 30
      [] setting = "3months" -> 90
      [] setting = "6months" -> 180
      [] OTHER -> 14

min_date == SetMin({data[n].Start_Date : n \in DOMAIN data})

max_date == SetMax({data[n].End_Date : n \in DOMAIN data})

\* date_ranges = {}; ...; current_date = min_date; period = 1
BeginDateRanges ==
    /\ rpc = "begin"
    /\ date_ranges' = <<>>
    /\ current_date' = Some(min_date)
    /\ rpc' = "while"
    /\ UNCHANGED <<data, date_range, sheets>>
    /\ UNCHANGED <<cpm_vars, web_vars>>

\* one turn of while current_date <= max_date: the period is stored as the
\* two printed dates
PeriodStep ==
    /\ rpc = "while"
    /\ Val(current_date) <= max_date
    /\ LET end_date == SetMin({Val(current_date) + PdTimedelta(Delta(date_range)) - PdTimedelta(1),
                                max_date})
       IN  /\ date_ranges' = Append(date_ranges, <<Date(Val(current_date)), Date(end_date)>>)
           /\ current_date' = Some(end_date + PdTimedelta(1))
    /\ UNCHANGED <<data, date_range, rpc, sheets>>
    /\ UNCHANGED <<cpm_vars, web_vars>>

\* the loop is left: return date_ranges
ReturnDateRanges ==
    /\ rpc = "while"
    /\ ~(Val(current_date) <= max_date)
    /\ rpc' = "start"
    /\ UNCHANGED <<data, date_range, current_date, date_ranges, sheets>>
    /\ UNCHANGED <<cpm_vars, web_vars>>

\* data.sort_values(by=...).reset_index(drop=True): the row numbers in
\* ascending order of the column
SortValues(by) ==
    CHOOSE p \in [DOMAIN data -> DOMAIN data] :
        /\ \A m, n \in DOMAIN data : m # n => p[m] # p[n]
        /\ \A m, n \in DOMAIN data :
                m < n => \/ data[p[m]][by] < data[p[n]][by]
                         \/ data[p[m]][by] = data[p[n]][by] /\ p[m] < p[n]

\* period_data of one period: the rows whose date lies between the two
\* parsed dates, both included
PeriodData(by, date_range_str) ==
    LET period_start == ToDatetime(date_range_str[1])
        period_end == ToDatetime(date_range_str[2])
        InPeriod(n) == data[n][by] >= period_start /\ data[n][by] <= period_end
    IN  SelectSeq(SortValues(by), InPeriod)

\* create_color_coded_df: one column of rows per period
create_color_coded_df(by) ==
    [k \in DOMAIN date_ranges |-> PeriodData(by, date_ranges[k])]

\* create_color_coded_df(data_sorted_by_start, date_ranges, 'start')
ColorCodedStart ==
    /\ rpc = "start"
    /\ sheets' = [sheets EXCEPT !.start = create_color_coded_df("Start_Date")]
    /\ rpc' = "end"
    /\ UNCHANGED <<data, date_range, current_date, date_ranges>>
    /\ UNCHANGED <<cpm_vars, web_vars>>

\* create_color_coded_df(data_sorted_by_end, date_ranges, 'end')
ColorCodedEnd ==
    /\ rpc = "end"
    /\ sheets' = [sheets EXCEPT !.end = create_color_coded_df("End_Date")]
    /\ rpc' = "done"
    /\ UNCHANGED <<data, date_range, current_date, date_ranges>>
    /\ UNCHANGED <<cpm_vars, web_vars>>

\* apply_analysis_to_filtered_data on a cleaned table, for a date_range setting
InitReport ==
    /\ Start(<<>>) /\ run = 1 /\ prev = None /\ WebIdle
    /\ data \in DataTables
    /\ date_range \in DateRangeSettings
    /\ rpc = "begin"
    /\ current_date = None
    /\ date_ranges = <<>>
    /\ sheets = [start |-> <<>>, end |-> <<>>]

NextReport ==
    \/ BeginDateRanges
    \/ PeriodStep
    \/ ReturnDateRanges
    \/ ColorCodedStart
    \/ ColorCodedEnd

SpecReport == InitReport /\ [][NextReport]_vars

(* ------------------------------------------------------------ the claims *)
Returned == pc = "done"
Ended == pc \in {"done", "raised"}
ForwardOver == pc \notin {"create", "forward"}
BackwardOver == pc \in {"check", "floats", "done", "raised"}

Preds(t) == Range(tasks[t].predecessors) \cap DOMAIN tasks
Succs(t) == Range(tasks[t].successors)

\* C1: on an acyclic table without dangling references, in whatever order
\* the records come, once the forward pass is over every task with a
\* predecessor has early_start = the greatest early_finish of ALL its
\* predecessors.
C1_EarlyStartIsMaxOverAllPredecessors ==
    ForwardOver =>
        \A t \in DOMAIN tasks :
            Preds(t) # {} =>
                /\ \A p \in Preds(t) : tasks[p].early_finish # None
                /\ tasks[t].early_start =
                        Some(SetMax({Val(tasks[p].early_finish) : p \in Preds(t)}))

\* C2: on an acyclic table without dangling references, once the backward
\* pass is over every task with a successor has late_finish = the least
\* late_start of ALL its successors.
C2_LateFinishIsMinOverAllSuccessors ==
    BackwardOver =>
        \A t \in DOMAIN tasks :
            Succs(t) # {} =>
                /\ \A q \in Succs(t) : tasks[q].late_start # None
                /\ tasks[t].late_finish =
                        Some(SetMin({Val(tasks[q].late_start) : q \in Succs(t)}))

\* C3: whenever the predecessor links contain a cycle, the analysis ends in
\* a CycleDetected error and returns no results table.
C3_CycleEndsInCycleDetected ==
    (Ended /\ HasCycle(records)) => (error = "CycleDetected" /\ results = None)

Rows == {results[n] : n \in 1..Len(results)}

PrevRows == {prev[n] : n \in 1..Len(prev)}

\* C4: two runs on the same task records, supplied in different record
\* orders and with the predecessor ids listed in different orders, give
\* every task id the same computed fields.
C4_SameResultsInAnyRecordOrder ==
    (run = 2 /\ Returned) => Rows = PrevRows

\* C5: after a run on an acyclic table every critical task with predecessors
\* has a critical predecessor and every critical task with successors has a
\* critical successor.
C5_CriticalTasksFormGapFreeChains ==
    Returned =>
        \A t \in DOMAIN tasks :
            tasks[t].is_critical =>
                /\ Preds(t) # {} => \E p \in Preds(t) : tasks[p].is_critical
                /\ Succs(t) # {} => \E q \in Succs(t) : tasks[q].is_critical

\* C6: in every results table returned, free_float <= total_float for every
\* task (read for the tasks that have both).
C6_FreeFloatAtMostTotalFloat ==
    Returned =>
        \A row \in Rows :
            (row.free_float # None /\ row.total_float # None) =>
                Val(row.free_float) <= Val(row.total_float)

\* C7: in every results table returned, every task has early_start,
\* early_finish, late_start, late_finish, total_float and free_float set.
C7_ReturnedTableFullyPopulated ==
    Returned =>
        \A row \in Rows :
            /\ row.early_start # None /\ row.early_finish # None
            /\ row.late_start # None /\ row.late_finish # None
            /\ row.total_float # None /\ row.free_float # None

\* C8: in every results table returned, a task has a finish date exactly
\* when it has the matching start date, and then finish - start = duration.
C8_FinishMinusStartIsDuration ==
    Returned =>
        \A row \in Rows :
            LET duration == Timedelta(tasks[row.task_id].duration)
            IN  /\ (row.early_start = None) <=> (row.early_finish = None)
                /\ (row.late_start = None) <=> (row.late_finish = None)
                /\ row.early_start # None =>
                        Val(row.early_finish) - Val(row.early_start) = duration
                /\ row.late_start # None =>
                        Val(row.late_finish) - Val(row.late_start) = duration

\* C9: in every results table returned, total_float is late_start -
\* early_start and also late_finish - early_finish (read for the tasks that
\* have all four dates; total_float counts days).
C9_TotalFloatIsBothDifferences ==
    Returned =>
        \A row \in Rows :
            (/\ row.early_start # None /\ row.early_finish # None
             /\ row.late_start # None /\ row.late_finish # None) =>
                /\ row.total_float # None
                /\ Val(row.total_float) * UnitsPerDay =
                        Val(row.late_start) - Val(row.early_start)
                /\ Val(row.total_float) * UnitsPerDay =
                        Val(row.late_finish) - Val(row.early_finish)

\* C10: at every point of the run and in every results table returned, a
\* task is flagged critical exactly when its total_float is set and is 0.
C10_CriticalIffTotalFloatZero ==
    /\ \A t \in DOMAIN tasks : tasks[t].is_critical <=> (tasks[t].total_float = Some(0))
    /\ \A row \in Rows : row.is_critical <=> (row.total_float = Some(0))

\* a table is returned in which one task is critical and another has a
\* total_float that is set and is not 0
W10_CriticalAndNonCriticalReturned ==
    /\ Returned
    /\ \E row \in Rows : row.is_critical
    /\ \E row \in Rows : row.total_float # None /\ Val(row.total_float) # 0

\* C11: whenever two records of the table carry the same task id, the
\* analysis ends in a DuplicateTaskId error and returns no results table.
C11_DuplicateIdEndsInDuplicateTaskId ==
    (Ended /\ HasDuplicate(records)) => (error = "DuplicateTaskId" /\ results = None)

\* C12: once the forward pass is over, a task whose listed predecessors are
\* all absent from the table has been scheduled as a source task:
\* early_start = planned_start and early_finish = planned_start + duration.
C12_AllAbsentPredecessorsMakeSource ==
    ForwardOver =>
        \A t \in DOMAIN tasks :
            (tasks[t].predecessors # <<>> /\ Preds(t) = {}) =>
                /\ tasks[t].early_start = tasks[t].planned_start
                /\ tasks[t].early_finish =
                        Some(Val(tasks[t].planned_start) + Timedelta(tasks[t].duration))

\* C13: on a table with unique ids and acyclic links, dangling predecessor
\* ids or not, the analysis ends without an error and returns a results row
\* for every task.
C13_DanglingReferencesNeverFatal ==
    (Ended /\ ~HasCycle(records)) =>
        /\ error = "none"
        /\ results # None
        /\ {results[n].task_id : n \in 1..Len(results)} = RowIds(records)

\* C14: in the critical path returned for an acyclic table, every critical
\* task comes after each critical task it depends on, whatever the order of
\* the records.
C14_CriticalPathInDependencyOrder ==
    Returned =>
        \A a, b \in 1..Len(critical_path) :
            critical_path[a] \in After(records, critical_path[b]) => b < a

\* C15: the critical tasks of independent chains are never merged into one
\* sequence: any two tasks of the one sequence returned as the critical path
\* lie on a common chain of predecessor links.
C15_IndependentChainsNotMerged ==
    Returned =>
        \A a, b \in Range(critical_path) :
            a # b => (a \in After(records, b) \/ b \in After(records, a))

\* C16: in every step of the forward pass on an acyclic table that assigns a
\* task's early_start, every predecessor of the task already has its
\* early_finish.
C16_EarlyStartAssignedAfterAllPredecessors ==
    [][\A t \in DOMAIN tasks \cap DOMAIN tasks' :
            (tasks[t].early_start = None /\ tasks'[t].early_start # None) =>
                \A p \in Preds(t) : tasks[p].early_finish # None]_vars

\* C17: in every step of the backward pass on an acyclic table that assigns
\* a task's late_finish, every successor of the task already has its
\* late_start.
C17_LateFinishAssignedAfterAllSuccessors ==
    [][\A t \in DOMAIN tasks \cap DOMAIN tasks' :
            (tasks[t].late_finish = None /\ tasks'[t].late_finish # None) =>
                \A q \in Succs(t) : tasks[q].late_start # None]_vars

\* C18: the three phases never overlap: no task has a late_start or
\* late_finish while the thread of the forward pass has not ended, and no
\* task has a total_float, a free_float or the critical flag while the
\* thread of the backward pass has not ended.
C18_PhasesNeverOverlap ==
    /\ threads.forward # "over" =>
            \A t \in DOMAIN tasks :
                tasks[t].late_start = None /\ tasks[t].late_finish = None
    /\ threads.backward # "over" =>
            \A t \in DOMAIN tasks :
                /\ tasks[t].total_float = None /\ tasks[t].free_float = None
                /\ ~tasks[t].is_critical

\* the main thread waits at the exit of the second with block while the
\* backward pass, running in its worker thread, has written late dates of
\* some tasks and not yet of others
W18_BackwardPassRunningInWorker ==
    /\ pc = "backward" /\ threads.forward = "over" /\ threads.backward = "loop"
    /\ \E t \in DOMAIN tasks : tasks[t].early_start # None /\ tasks[t].late_finish # None
    /\ \E t \in DOMAIN tasks : tasks[t].early_start # None /\ tasks[t].late_finish = None

\* C19: once the backward pass is over, every task without successors has
\* late_finish equal to its own early_finish.
C19_SinkLateFinishIsOwnEarlyFinish ==
    BackwardOver =>
        \A t \in DOMAIN tasks :
            tasks[t].successors = <<>> => tasks[t].late_finish = tasks[t].early_finish

\* C20: no step of the analysis changes a record of the input table, and a
\* second run on the same table ends as the first one did: with the same
\* results table, or with none.
C20_InputRecordsUnchanged ==
    /\ [][records' = records]_vars
    /\ []((run = 2 /\ Ended) => results = prev)

\* a second run on a table with a dangling predecessor id has returned its
\* results, after the first run had written successor lists and computed
\* values into its own Task objects
W20_SecondRunReturned ==
    /\ run = 2 /\ Returned /\ HasDangling(records)
    /\ \E t \in DOMAIN tasks : tasks[t].successors # <<>>
    /\ \E row \in Rows : row.is_critical

\* C21: in the results table returned for an acyclic table without dangling
\* references, no task has negative slack: late_start >= early_start,
\* late_finish >= early_finish and total_float >= 0.
C21_NoNegativeSlack ==
    Returned =>
        \A row \in Rows :
            /\ row.early_start # None /\ row.late_start # None
            /\ row.early_finish # None /\ row.late_finish # None
            /\ row.total_float # None
            /\ Val(row.late_start) >= Val(row.early_start)
            /\ Val(row.late_finish) >= Val(row.early_finish)
            /\ Val(row.total_float) >= 0

\* C22: forward_pass and backward_pass end by returning on every table,
\* cyclic ones included: the calls of process_task never nest deeper than the
\* number of tasks, and no pass ends with RecursionError.
C22_PassesTerminate ==
    /\ Len(stack) <= Cardinality(DOMAIN tasks)
    /\ futures.forward # "RecursionError"
    /\ futures.backward # "RecursionError"

\* the tasks from which a chain of links leads to task t
LeadTo(t) == {a \in DOMAIN tasks : t \in After(records, a)}

\* C23: when no task is a sink and every task has an early_finish, after the
\* backward pass the one end task is a task with the greatest early_finish,
\* it has late_finish = early_finish and late_start = late_finish - duration,
\* and every task that leads to it has a late_start.
C23_NoSinkFallbackPropagates ==
    (/\ BackwardOver
     /\ \A t \in DOMAIN tasks : tasks[t].successors # <<>> /\ tasks[t].early_finish # None) =>
        /\ Len(end_tasks) = 1
        /\ LET latest_task == tasks[end_tasks[1]]
           IN  /\ \A t \in DOMAIN tasks :
                        Val(tasks[t].early_finish) <= Val(latest_task.early_finish)
               /\ latest_task.late_finish = latest_task.early_finish
               /\ latest_task.late_start =
                        Some(Val(latest_task.late_finish) - Timedelta(latest_task.duration))
               /\ \A t \in LeadTo(end_tasks[1]) : tasks[t].late_start # None

\* C24: when the analysis of a table with acyclic links has ended, every task
\* without successors that has its early dates has total_float = 0, is
\* flagged critical and is listed in the critical path.
C24_SinksAreCritical ==
    (Ended /\ ~HasCycle(records)) =>
        \A t \in DOMAIN tasks :
            (/\ tasks[t].successors = <<>>
             /\ tasks[t].early_start # None /\ tasks[t].early_finish # None) =>
                /\ tasks[t].total_float = Some(0)
                /\ tasks[t].is_critical
                /\ t \in Range(critical_path)

\* the stages of call r that have returned
StagesReturned(r) == {k \in 1..Len(procs[r].log) : procs[r].log[k][1] = "return"}

\* call r has passed the reset of overall_progress at its start
PastReset(r) == procs[r].log # <<>>

\* the stages of call r whose progress has been written
StagesCompleted(r) ==
    Cardinality(StagesReturned(r)) - (IF procs[r].pc \in {"step_hundred", "overall"} THEN 1 ELSE 0)

\* C25: within one call of process_xer_file, stage k is called only after
\* stages 1..k-1 have returned, in that order, and nothing is called after a
\* stage has raised; every write to overall_progress is the reset to 0 at the
\* start or an increase to one of 25, 50, 75, 100; after the reset
\* overall_progress is 25 times the number of completed stages, also after a
\* stage has raised; and a raise ends in the caller with the exception.
C25_StagesInOrder ==
    /\ [](\A k \in 1..Len(procs[1].log) :
            /\ procs[1].log[k][2] = (k + 1) \div 2
            /\ procs[1].log[k][2] \in 1..Len(StepNames)
            /\ procs[1].log[k][1] = (IF k % 2 = 1 THEN "call"
                                     ELSE IF k = Len(procs[1].log) /\ procs[1].pc \in {"except", "error", "end"}
                                               /\ procs[1].outcome # "returned"
                                          THEN "raise" ELSE "return"))
    /\ [][\/ progress_info'.overall_progress = progress_info.overall_progress
          \/ procs[1].pc = "overall_zero" /\ progress_info'.overall_progress = 0
          \/ /\ PastReset(1)
             /\ progress_info'.overall_progress > progress_info.overall_progress
             /\ progress_info'.overall_progress \in {25, 50, 75, 100}]_vars
    /\ [](PastReset(1) => progress_info.overall_progress = 25 * StagesCompleted(1))
    /\ [](procs[1].outcome = "returned" => Cardinality(StagesReturned(1)) = Len(StepNames))
    /\ [](procs[1].outcome = "raised" <=>
            (procs[1].pc \in {"error", "end"} /\ procs[1].log # <<>>
             /\ procs[1].log[Len(procs[1].log)][1] = "raise"))

\* the critical-path stage raised after two stages completed, and the
\* exception reached the caller
W25_ThirdStageRaised ==
    /\ procs[1].outcome = "raised"
    /\ procs[1].log = <<<<"call", 1>>, <<"return", 1>>, <<"call", 2>>, <<"return", 2>>,
                        <<"call", 3>>, <<"raise", 3>>>>
    /\ progress_info.overall_progress = 50

\* run r is executing: started and not yet at the end of its thread or request
Executing(r) == procs[r].pc \notin {"idle", "end"}

\* C26: whatever the interleaving of the requests, overall_progress does not
\* decrease while a run that has passed its own reset is executing, and
\* /progress answers 'Complete' with 100 only when no run is executing.
C26_ProgressConsistent ==
    /\ [][(\E r \in 1..MaxRuns : Executing(r) /\ PastReset(r)) =>
            progress_info'.overall_progress >= progress_info.overall_progress]_vars
    /\ [][(/\ served' # served
           /\ served'.current_step = "Complete"
           /\ served'.overall_progress = 100) =>
            \A r \in 1..MaxRuns : ~Executing(r)]_vars

\* the periods of the sheet in which row n is listed
PeriodsOf(sheet, n) == {k \in DOMAIN sheet : n \in Range(sheet[k])}

\* C27: the loop of calculate_date_ranges makes at most one period per day
\* of the span; when both sheets are made, each period begins the day after
\* the previous one ended, the first begins on the day of the earliest Start
\* Date and the last ends on the day of the latest End Date, and every row is
\* listed in exactly one period of the start sheet and in exactly one period
\* of the end sheet.
C27_PeriodsPartitionTheSpan ==
    /\ Len(date_ranges) <= MaxDay + 1
    /\ rpc = "done" =>
        /\ date_ranges # <<>>
        /\ date_ranges[1][1] = Date(min_date)
        /\ date_ranges[Len(date_ranges)][2] = Date(max_date)
        /\ \A k \in DOMAIN date_ranges : date_ranges[k][1] <= date_ranges[k][2]
        /\ \A k \in 1..(Len(date_ranges) - 1) : date_ranges[k + 1][1] = date_ranges[k][2] + 1
        /\ \A n \in DOMAIN data :
                /\ Cardinality(PeriodsOf(sheets.start, n)) = 1
                /\ Cardinality(PeriodsOf(sheets.end, n)) = 1

====
